---- MODULE Spec2Model ----
(***************************************************************************)
(* A model of forecast_wrapper.py: the series builder ts, the five          *)
(* forecasting wrappers (meanf, thetaf, naive, snaive, rwf) and the result  *)
(* extractor extract_forecast.                                              *)
(*                                                                          *)
(* R values are modelled as vectors (sequences): a scalar is a vector of    *)
(* length one and NULL is the empty vector.  An optional Python argument is *)
(* a sequence too: <<>> when the caller omits it, <<v>> when it passes v.   *)
(* The R runtime (ts, frequency, the forecast package) and pandas are       *)
(* outside the repository; they are modelled at the call sites by what      *)
(* they are documented to return.                                           *)
(***************************************************************************)
EXTENDS Integers, Sequences, FiniteSets, TLC

VARIABLES
  globals,  \* the module-level handles: forecast, frequency, NULL
  x,        \* the time-series handle the caller holds (from ts)
  fc,       \* the forecast result the caller holds (from a forecasting call)
  call,     \* the last call of the wrapper: its name and arguments
  rcalls,   \* the invocations of the R runtime made by the last call, in order
  out       \* what the last call returned or raised

vars == <<globals, x, fc, call, rcalls, out>>

----------------------------------------------------------------------------
(* Bounds of the model *)

MaxLen == 1    \* longest data sequence handed to ts
MaxFreq == 2   \* largest frequency handed to ts
MaxH == 1      \* largest explicit horizon handed to a forecasting wrapper
MaxFlat == 4   \* longest flat interval sequence of an arbitrary forecast object
MaxMean == 2   \* longest point forecast of an arbitrary forecast object

(* Program constant *)
DefaultH == 10 \* h=10, the default horizon of meanf, thetaf, naive, rwf

Min(a, b) == IF a < b THEN a ELSE b
Max(a, b) == IF a > b THEN a ELSE b

None == <<>>
Some(v) == <<v>>

----------------------------------------------------------------------------
(* Module-level state, lines 7-9 *)

NULL == <<>>

GlobalsInit ==
  [forecast |-> "package:forecast", frequency |-> "function:frequency", NULL |-> NULL]

NoHandle == [kind |-> "none"]
NoCall == [op |-> "none"]

Raise(e) == [kind |-> "raise", error |-> e]

----------------------------------------------------------------------------
(* Python slicing: s[:h] and s[h:], with negative and out-of-range bounds    *)
(* clamped the way a slice clamps them.                                      *)

PyIndex(n, i) == IF i < 0 THEN Max(n + i, 0) ELSE Min(i, n)

SliceTo(s, h) == SubSeq(s, 1, PyIndex(Len(s), h))

SliceFrom(s, h) == SubSeq(s, PyIndex(Len(s), h) + 1, Len(s))

----------------------------------------------------------------------------
(* extract_forecast, lines 34-67 *)

\* fc.rx2(name): the named field of an R forecast object
rx2(f, name) ==
  CASE name = "mean" -> f.mean
    [] name = "lower" -> f.lower
    [] name = "upper" -> f.upper

\* lines 56-61: the 5-tuple (lower_95, lower_80, mean_fc, upper_80, upper_95)
results_swapped(f, horizon) ==
  << SliceTo(rx2(f, "lower"), horizon),
     SliceFrom(rx2(f, "lower"), horizon),
     rx2(f, "mean"),
     SliceTo(rx2(f, "upper"), horizon),
     SliceFrom(rx2(f, "upper"), horizon) >>

results_off_by_one(f, horizon) ==
  << SliceFrom(rx2(f, "lower"), horizon + 1),
     SliceTo(rx2(f, "lower"), horizon),
     rx2(f, "mean"),
     SliceTo(rx2(f, "upper"), horizon),
     SliceFrom(rx2(f, "upper"), horizon) >>

results(f, horizon) ==
  << SliceFrom(rx2(f, "lower"), horizon),
     SliceTo(rx2(f, "lower"), horizon),
     rx2(f, "mean"),
     SliceTo(rx2(f, "upper"), horizon),
     SliceFrom(rx2(f, "upper"), horizon) >>

\* line 63
cols == <<"lower95", "lower80", "point_forecast", "upper80", "upper95">>

\* dict(zip(keys, values)) for distinct keys: zip stops at the shorter
\* sequence and the dict keeps the keys in insertion order
dict_zip(keys, values) ==
  LET n == Min(Len(keys), Len(values))
      last(k) == CHOOSE i \in 1..n : keys[i] = k /\ \A j \in (i+1)..n : keys[j] # k
  IN  [keys |-> SubSeq(keys, 1, n),
       at |-> [k \in {keys[i] : i \in 1..n} |-> values[last(k)]]]

\* pd.DataFrame(d) of a dict of lists: one column per key, in the dict's order;
\* pandas raises ValueError when the lists differ in length
pd_DataFrame(d) ==
  IF \E a, b \in DOMAIN d.at : Len(d.at[a]) # Len(d.at[b])
  THEN Raise("ValueError")
  ELSE [kind |-> "DataFrame", columns |-> d.keys, data |-> d.at]

\* df[keys]: the columns named by keys, in the order of keys
df_getitem(df, keys) ==
  IF df.kind = "raise" THEN df
  ELSE [kind |-> "DataFrame", columns |-> keys,
        data |-> [k \in {keys[i] : i \in 1..Len(keys)} |-> df.data[k]]]

pd_Series(values) == [kind |-> "Series", values |-> values]

\* lines 63-65 with the column names listed in another order than the tuple
frame_mislabelled(res) ==
  LET sorted == <<"lower80", "lower95", "point_forecast", "upper80", "upper95">>
  IN  df_getitem(pd_DataFrame(dict_zip(sorted, res)), sorted)

\* lines 63-65
frame(res) == df_getitem(pd_DataFrame(dict_zip(cols, res)), cols)

extract_forecast(f, horizon, mean_only, as_pandas) ==
  IF mean_only
  THEN LET result == rx2(f, "mean")
       IN  IF as_pandas THEN pd_Series(result)
           ELSE [kind |-> "list", values |-> result]
  ELSE LET res == results(f, horizon)
       IN  IF as_pandas THEN frame(res)
           ELSE [kind |-> "tuple", elems |-> res]

----------------------------------------------------------------------------
(* The R runtime, as the wrappers call it *)

\* robjects.r('ts')(rdata, start=start, frequency=frequency), line 30: R's ts
\* stops on an empty vector and on a frequency that is not positive
R_ts(rdata, start, frequency) ==
  IF Len(rdata) = 0 \/ frequency <= 0
  THEN Raise("RRuntimeError")
  ELSE [kind |-> "ts", data |-> rdata, start |-> start, frequency |-> frequency]

\* robjects.r('frequency')(x), line 8: a numeric vector of length one
R_frequency(series) == <<series.frequency>>

\* The forecast objects the procedure named by an invocation can return for
\* its series and horizon h: a point forecast of length h and the flat lower
\* and upper sequences of length 2h, the 80% band followed by the 95% band,
\* the 95% band around the 80% band around the point forecast.  The point
\* forecast starts at an observation (the last one for naive, snaive and
\* rwf) and is flat, or rises with the step for thetaf and for rwf with
\* drift; the bands are of constant width for meanf and may widen with the
\* step for the others.
R_forecast(inv) ==
  LET obs == inv.x.data
      h == inv.h
      levels == IF inv.fn \in {"meanf", "thetaf"}
                THEN {obs[i] : i \in 1..Len(obs)}
                ELSE {obs[Len(obs)]}
      trends == IF inv.fn = "thetaf" \/ (inv.fn = "rwf" /\ inv.drift)
                THEN 0..1 ELSE {0}
      grows == IF inv.fn = "meanf" THEN {0} ELSE 0..1
      step(j) == IF j <= h THEN j ELSE j - h
      width(j, grow) == 1 + grow * (step(j) - 1) + (IF j <= h THEN 0 ELSE 1)
  IN  { [kind |-> "forecast",
         mean |-> [i \in 1..h |-> level + trend * (i - 1)],
         lower |-> [j \in 1..(2 * h) |->
                     level + trend * (step(j) - 1) - width(j, grow)],
         upper |-> [j \in 1..(2 * h) |->
                     level + trend * (step(j) - 1) + width(j, grow)]] :
        level \in levels, trend \in trends, grow \in grows }

----------------------------------------------------------------------------
(* ts, lines 12-31 *)

\* lines 28-29: a tuple start becomes the R vector c(*start); a number is
\* passed as it is (a vector of length one)
ts_start(start) == start.elems

\* lines 26-30: the invocations of the R runtime
ts_rcalls(data, start, frequency) ==
  << [fn |-> "ts", rdata |-> data, start |-> ts_start(start), frequency |-> frequency] >>

ts(data, start, frequency) == R_ts(data, ts_start(start), frequency)

Call_ts_rebinds(data, start, frequency) ==
  /\ call' = [op |-> "ts", data |-> data, start |-> start, frequency |-> frequency]
  /\ rcalls' = ts_rcalls(data, start, frequency)
  /\ out' = ts(data, start, frequency)
  /\ x' = IF out'.kind = "ts" THEN out' ELSE x
  /\ globals' = [globals EXCEPT !.frequency = "function:frequency:rebound"]
  /\ UNCHANGED fc

Call_ts(data, start, frequency) ==
  /\ call' = [op |-> "ts", data |-> data, start |-> start, frequency |-> frequency]
  /\ rcalls' = ts_rcalls(data, start, frequency)
  /\ out' = ts(data, start, frequency)
  /\ x' = IF out'.kind = "ts" THEN out' ELSE x
  /\ UNCHANGED <<globals, fc>>

----------------------------------------------------------------------------
(* The forecasting wrappers, lines 70-165 *)

\* an omitted h takes the default of the signature
default_h(h) == IF h = None THEN DefaultH ELSE h[1]

\* forecast.meanf(x, h, **{'lambda' : lam}), line 85
meanf_rcalls(series, h, lam) ==
  << [fn |-> "meanf", x |-> series, h |-> default_h(h), lambda |-> lam] >>

\* forecast.thetaf(x, h), line 103
thetaf_rcalls(series, h) ==
  << [fn |-> "thetaf", x |-> series, h |-> default_h(h)] >>

\* forecast.naive(x, h, **{'lambda' : lam}), line 122
naive_rcalls(series, h, lam) ==
  << [fn |-> "naive", x |-> series, h |-> default_h(h), lambda |-> lam] >>

\* lines 143-145 with the default horizon one period instead of two
snaive_rcalls_one_period(series, h, lam) ==
  IF h = None
  THEN << [fn |-> "frequency", x |-> series],
          [fn |-> "snaive", x |-> series, h |-> R_frequency(series)[1], lambda |-> lam] >>
  ELSE << [fn |-> "snaive", x |-> series, h |-> h[1], lambda |-> lam] >>

\* lines 143-145: h = 2 * frequency(x)[0] when h is None, then forecast.snaive
snaive_rcalls(series, h, lam) ==
  IF h = None
  THEN << [fn |-> "frequency", x |-> series],
          [fn |-> "snaive", x |-> series, h |-> 2 * R_frequency(series)[1], lambda |-> lam] >>
  ELSE << [fn |-> "snaive", x |-> series, h |-> h[1], lambda |-> lam] >>

\* forecast.rwf(x, h, drift, **{'lambda' : lam}), line 165
rwf_rcalls(series, h, drift, lam) ==
  << [fn |-> "rwf", x |-> series, h |-> default_h(h), drift |-> drift, lambda |-> lam] >>

\* A wrapper returns what its last invocation of the R runtime returns; the
\* caller keeps the result
Returns(invocations) ==
  \E r \in R_forecast(invocations[Len(invocations)]) :
    /\ out' = r
    /\ fc' = r

Call_meanf(h, lam) ==
  /\ x.kind = "ts"
  /\ call' = [op |-> "meanf", h |-> h, lam |-> lam]
  /\ rcalls' = meanf_rcalls(x, h, lam)
  /\ Returns(meanf_rcalls(x, h, lam))
  /\ UNCHANGED <<globals, x>>

Call_thetaf(h) ==
  /\ x.kind = "ts"
  /\ call' = [op |-> "thetaf", h |-> h]
  /\ rcalls' = thetaf_rcalls(x, h)
  /\ Returns(thetaf_rcalls(x, h))
  /\ UNCHANGED <<globals, x>>

Call_naive(h, lam) ==
  /\ x.kind = "ts"
  /\ call' = [op |-> "naive", h |-> h, lam |-> lam]
  /\ rcalls' = naive_rcalls(x, h, lam)
  /\ Returns(naive_rcalls(x, h, lam))
  /\ UNCHANGED <<globals, x>>

Call_snaive(h, lam) ==
  /\ x.kind = "ts"
  /\ call' = [op |-> "snaive", h |-> h, lam |-> lam]
  /\ rcalls' = snaive_rcalls(x, h, lam)
  /\ Returns(snaive_rcalls(x, h, lam))
  /\ UNCHANGED <<globals, x>>

Call_rwf(h, drift, lam) ==
  /\ x.kind = "ts"
  /\ call' = [op |-> "rwf", h |-> h, drift |-> drift, lam |-> lam]
  /\ rcalls' = rwf_rcalls(x, h, drift, lam)
  /\ Returns(rwf_rcalls(x, h, drift, lam))
  /\ UNCHANGED <<globals, x>>

\* extract_forecast(fc, horizon, mean_only, as_pandas) on the forecast held
Call_extract_forecast(horizon, mean_only, as_pandas) ==
  /\ fc.kind = "forecast"
  /\ call' = [op |-> "extract_forecast", horizon |-> horizon,
              mean_only |-> mean_only, as_pandas |-> as_pandas]
  /\ rcalls' = << >>
  /\ out' = extract_forecast(fc, horizon, mean_only, as_pandas)
  /\ UNCHANGED <<globals, x, fc>>

----------------------------------------------------------------------------
(* The inputs *)

\* the series 1, 2, ..., k of every length k up to MaxLen, the empty one included
Datas == {[i \in 1..k |-> i] : k \in 0..MaxLen}

Starts == { [tuple |-> FALSE, elems |-> <<1>>],
            [tuple |-> TRUE, elems |-> <<2010, 3>>] }

Frequencies == (0 - 1)..MaxFreq

Horizons == {None} \cup {Some(h) : h \in 1..MaxH}

Lambdas == {NULL, <<0>>}

ExtractHorizons == ((0 - 1)..(MaxH + 1)) \cup {DefaultH}

\* Any object with the three fields of a forecast, whatever their lengths.
\* extract_forecast never inspects a value, it only moves them, so every
\* value is made distinct: a value dropped, repeated or moved shows.
ForecastObjects ==
  { [kind |-> "forecast",
     mean |-> [i \in 1..nm |-> 100 + i],
     lower |-> [j \in 1..nl |-> j],
     upper |-> [j \in 1..nu |-> 200 + j]] :
    nm \in 0..MaxMean, nl \in 0..MaxFlat, nu \in 0..MaxFlat }

ObjectHorizons == (0 - 1)..(MaxFlat + 1)

----------------------------------------------------------------------------
(* The wrapper as its callers drive it *)

Init ==
  /\ globals = GlobalsInit
  /\ x = NoHandle
  /\ fc = NoHandle
  /\ call = NoCall
  /\ rcalls = << >>
  /\ out = NoHandle

Next ==
  \/ \E data \in Datas, start \in Starts, frequency \in Frequencies :
       Call_ts(data, start, frequency)
  \/ \E h \in Horizons, lam \in Lambdas : Call_meanf(h, lam)
  \/ \E h \in Horizons : Call_thetaf(h)
  \/ \E h \in Horizons, lam \in Lambdas : Call_naive(h, lam)
  \/ \E h \in Horizons, lam \in Lambdas : Call_snaive(h, lam)
  \/ \E h \in Horizons, drift \in BOOLEAN, lam \in Lambdas : Call_rwf(h, drift, lam)
  \/ \E horizon \in ExtractHorizons, mean_only \in BOOLEAN, as_pandas \in BOOLEAN :
       Call_extract_forecast(horizon, mean_only, as_pandas)

Spec == Init /\ [][Next]_vars

(* extract_forecast as a function of its arguments: the forecast object is  *)
(* any object with the three fields                                         *)

InitExtract ==
  /\ globals = GlobalsInit
  /\ x = NoHandle
  /\ fc \in ForecastObjects
  /\ call = NoCall
  /\ rcalls = << >>
  /\ out = NoHandle

NextExtract ==
  \E horizon \in ObjectHorizons, mean_only \in BOOLEAN, as_pandas \in BOOLEAN :
    Call_extract_forecast(horizon, mean_only, as_pandas)

SpecExtract == InitExtract /\ [][NextExtract]_vars

----------------------------------------------------------------------------
(* Properties *)

ForecastOps == {"meanf", "thetaf", "naive", "snaive", "rwf"}

Extracted == call.op = "extract_forecast"

FullMode == Extracted /\ ~call.mean_only

Returned == out.kind \in {"list", "Series", "tuple", "DataFrame"}

\* column k (1 = lower95, 2 = lower80, 3 = point_forecast, 4 = upper80,
\* 5 = upper95) of a full-mode result, plain or tabular
Column(o, k) == IF o.kind = "tuple" THEN o.elems[k] ELSE o.data[o.columns[k]]

\* C1: in full mode, extract_forecast raises ShapeMismatch, and returns no
\* result, whenever the lower or the upper sequence of the forecast is not
\* exactly 2 * horizon long, with plain and with tabular output.
ShapeMismatchRaised ==
  (FullMode /\ (Len(fc.lower) # 2 * call.horizon \/ Len(fc.upper) # 2 * call.horizon))
    => out = Raise("ShapeMismatch")

\* C2: when lower and upper are 2h long and mean is h long, the plain
\* full-mode result has lower80 = lower[0..h), lower95 = lower[h..2h),
\* upper80 = upper[0..h), upper95 = upper[h..2h) and point_forecast = mean,
\* element for element.
SplitIsPositional ==
  (FullMode /\ ~call.as_pandas /\ call.horizon >= 0
     /\ Len(fc.lower) = 2 * call.horizon /\ Len(fc.upper) = 2 * call.horizon
     /\ Len(fc.mean) = call.horizon)
    => LET h == call.horizon
       IN  /\ out.kind = "tuple"
           /\ \A k \in 1..5 : Len(out.elems[k]) = h
           /\ \A i \in 1..h :
                /\ out.elems[2][i] = fc.lower[i]
                /\ out.elems[1][i] = fc.lower[h + i]
                /\ out.elems[4][i] = fc.upper[i]
                /\ out.elems[5][i] = fc.upper[h + i]
                /\ out.elems[3][i] = fc.mean[i]

SplitIsPositionalWitness ==
  /\ FullMode /\ ~call.as_pandas /\ call.horizon = 2
  /\ Len(fc.lower) = 4 /\ Len(fc.upper) = 4 /\ Len(fc.mean) = 2
  /\ out.kind = "tuple"
  /\ out.elems[1] # out.elems[2]

\* C3: in mean-only mode, extract_forecast returns a sequence of exactly
\* horizon elements, horizon being the argument it is called with (>= 1).
MeanOnlyLengthIsHorizon ==
  (Extracted /\ call.mean_only /\ call.horizon >= 1)
    => (out.kind \in {"list", "Series"} /\ Len(out.values) = call.horizon)

\* C4: every result extract_forecast returns in full mode has five columns,
\* each of exactly horizon elements, horizon being the argument it is
\* called with.
FullColumnsLengthIsHorizon ==
  (FullMode /\ Returned)
    => \A k \in 1..5 : Len(Column(out, k)) = call.horizon

\* C5: snaive called without h invokes the seasonal-naive procedure with
\* h = 2 * (the frequency of the series), after asking R for the frequency;
\* called with h, it forwards h unchanged and does not ask for the frequency.
SnaiveDefaultHorizon ==
  call.op = "snaive"
    => IF call.h = None
       THEN /\ Len(rcalls) = 2
            /\ rcalls[1].fn = "frequency"
            /\ rcalls[2].fn = "snaive"
            /\ rcalls[2].h = 2 * x.frequency
       ELSE /\ Len(rcalls) = 1
            /\ rcalls[1].fn = "snaive"
            /\ rcalls[1].h = call.h[1]

SnaiveDefaultHorizonWitness ==
  /\ call.op = "snaive" /\ call.h = None
  /\ x.frequency = 2
  /\ rcalls[2].h = 4

\* C6: ts raises InvalidInput, before it invokes the R constructor, whenever
\* the data sequence is empty or the frequency is not positive.
TsRejectsInvalidInput ==
  (call.op = "ts" /\ (Len(call.data) = 0 \/ call.frequency < 1))
    => (out = Raise("InvalidInput") /\ rcalls = << >>)

\* C7: every full-mode result of extract_forecast is nested at every index
\* i of [0, horizon): lower95[i] <= lower80[i] <= point_forecast[i] <=
\* upper80[i] <= upper95[i].
IntervalsNested ==
  (FullMode /\ Returned)
    => \A i \in 1..call.horizon :
         /\ \A k \in 1..5 : i <= Len(Column(out, k))
         /\ Column(out, 1)[i] <= Column(out, 2)[i]
         /\ Column(out, 2)[i] <= Column(out, 3)[i]
         /\ Column(out, 3)[i] <= Column(out, 4)[i]
         /\ Column(out, 4)[i] <= Column(out, 5)[i]

\* C8: no call changes the module-level handles forecast, frequency and
\* NULL; a forecasting call and an extraction leave the series as it was, ts
\* and an extraction leave the forecast result as it was; and what a call
\* returns and what it asks of R is determined by its arguments alone,
\* whatever was called before (a forecasting call returns what R returns).
NoSharedMutableState ==
  [][ /\ globals' = globals
      /\ globals' = GlobalsInit
      /\ (call'.op # "ts") => (x' = x)
      /\ (call'.op \notin ForecastOps) => (fc' = fc)
      /\ (call'.op = "ts") =>
           /\ out' = ts(call'.data, call'.start, call'.frequency)
           /\ rcalls' = ts_rcalls(call'.data, call'.start, call'.frequency)
      /\ (call'.op = "extract_forecast") =>
           /\ out' = extract_forecast(fc, call'.horizon, call'.mean_only, call'.as_pandas)
           /\ rcalls' = << >>
      /\ (call'.op \in ForecastOps) =>
           /\ fc' = out'
           /\ rcalls' =
                CASE call'.op = "meanf" -> meanf_rcalls(x, call'.h, call'.lam)
                  [] call'.op = "thetaf" -> thetaf_rcalls(x, call'.h)
                  [] call'.op = "naive" -> naive_rcalls(x, call'.h, call'.lam)
                  [] call'.op = "snaive" -> snaive_rcalls(x, call'.h, call'.lam)
                  [] call'.op = "rwf" -> rwf_rcalls(x, call'.h, call'.drift, call'.lam)
    ]_vars

NoSharedMutableStateWitness ==
  /\ Extracted /\ out.kind = "DataFrame"
  /\ x.kind = "ts" /\ x.frequency = 2
  /\ Len(fc.mean) = DefaultH
  /\ globals = GlobalsInit

\* C9: a tabular full-mode result has exactly the columns lower95, lower80,
\* point_forecast, upper80, upper95, in that order, and column k holds the
\* values of element k of the plain 5-tuple for the same forecast and
\* horizon; a tabular result exists whenever the five elements are equally
\* long.
TabularMatchesPlain ==
  (FullMode /\ call.as_pandas)
    => LET plain == extract_forecast(fc, call.horizon, FALSE, FALSE)
       IN  IF \A k \in 1..5 : Len(plain.elems[k]) = Len(plain.elems[1])
           THEN /\ out.kind = "DataFrame"
                /\ out.columns =
                     <<"lower95", "lower80", "point_forecast", "upper80", "upper95">>
                /\ DOMAIN out.data = {out.columns[k] : k \in 1..5}
                /\ \A k \in 1..5 : out.data[out.columns[k]] = plain.elems[k]
           ELSE out.kind = "raise"

TabularMatchesPlainWitness ==
  /\ FullMode /\ call.as_pandas /\ call.horizon = 2
  /\ out.kind = "DataFrame"
  /\ Len(out.data["lower95"]) = 2
  /\ out.data["lower95"] # out.data["lower80"]

\* C10: in plain full mode the call returns without raising, and for every
\* horizon h with 0 <= h <= the length of the flat sequence, lower80 followed
\* by lower95 is the flat lower sequence and upper80 followed by upper95 is
\* the flat upper sequence.
SplitLosesNothing ==
  (FullMode /\ ~call.as_pandas)
    => /\ out.kind = "tuple"
       /\ (0 <= call.horizon /\ call.horizon <= Len(fc.lower))
            => out.elems[2] \o out.elems[1] = fc.lower
       /\ (0 <= call.horizon /\ call.horizon <= Len(fc.upper))
            => out.elems[4] \o out.elems[5] = fc.upper

SplitLosesNothingWitness ==
  /\ FullMode /\ ~call.as_pandas /\ call.horizon = 1
  /\ Len(fc.lower) = 4 /\ Len(fc.upper) = 3
  /\ out.kind = "tuple"
  /\ Len(out.elems[1]) = 3 /\ Len(out.elems[2]) = 1

====
